---- MODULE Spec2Model ----
(***************************************************************************)
(* A model of the editor LSP stack: WebSocketTransport (transport.js),     *)
(* JsonRpc (jsonRpc.js) and the session client of createLspClient          *)
(* (lspClient.js).  One step of the model is one task of the JavaScript    *)
(* event loop, run to completion together with the promise reactions       *)
(* (microtasks) it schedules.                                              *)
(***************************************************************************)
EXTENDS Integers, Sequences, FiniteSets, Bags, TLC

\* ------------------------------------------------------------------ bounds
\* request() calls made on the engine in one behaviour
MaxId == 2
\* WebSocket objects the transport creates in one behaviour
MaxSockets == 2
\* notifications without an id in their params (the callers' own, the keepalive)
\* that may be on the wire before the callers and the keepalive stop adding more
MaxWire == 1

Ids == 1..MaxId
\* requests each of the sessions created side by side may make
MaxPeerId == 1
Sockets == 1..MaxSockets
\* cancellation tokens (AbortSignals) the callers hold
Tokens == {"t1"}
NoToken == "none"

VARIABLES
    ws,             \* transport._ws: 0 is null, else the current socket
    readyState,     \* readyState of every socket ("NONE": not created yet)
    connected,      \* transport._connected
    kaTimer,        \* transport._kaTimer is an armed interval
    nextId,         \* rpc._id
    pending,        \* keys of rpc._pending
    timers,         \* ids whose timeout timer is armed
    futures,        \* id -> state of the promise request() returned
    listeners,      \* token -> ids whose abort listener is registered on it
    aborted,        \* tokens that have triggered
    wire,           \* bag of the messages handed to WebSocket.send
    callers,        \* id -> the session-client method awaiting the request
    calls,          \* id -> state of the promise the session-client method returned
    serverSyncKind,         \* lspClient serverSyncKind
    serverCapabilities,     \* lspClient serverCapabilities (its textDocumentSync)
    handlers,       \* rpc._handlers: method -> its Set of callbacks, in insertion order
    handles,        \* <<method, callback>> -> the unsubscribe closures on() returned
                    \* for it: how many were not called yet, whether one was called
    emitted,        \* the callbacks the last task invoked, in the order of the calls
    diagListeners,  \* lspClient _listeners.publishDiagnostics: a Set, in insertion order
    diagnosed,      \* the onPublishDiagnostics callbacks the last task called, in order
    peers,          \* sessions created side by side: instance -> its transport and engine
    last            \* the task that ran last: what it was and whether it threw

transportVars == <<ws, readyState, connected, kaTimer>>
engineVars == <<nextId, pending, timers, futures, listeners, aborted>>
clientVars == <<callers, calls, serverSyncKind, serverCapabilities>>
restVars == <<handlers, handles, peers, diagListeners>>
vars == <<ws, readyState, connected, kaTimer, nextId, pending, timers, futures,
          listeners, aborted, wire, callers, calls, serverSyncKind,
          serverCapabilities, handlers, handles, emitted, diagListeners, diagnosed,
          peers, last>>

\* ------------------------------------------------------------ JSON values
JNull == [j |-> "null"]
JUndef == [j |-> "undefined"]
JNum(n) == [j |-> "num", n |-> n]
JStr(s) == [j |-> "str", s |-> s]
JArr(items) == [j |-> "arr", items |-> items]

\* the error member of a response
ErrAbsent == [e |-> "absent"]
ErrObj(code, message, data) ==
    [e |-> "obj", code |-> code, message |-> message, data |-> data]

\* A JSON object, by the members the code reads: id (hasId says whether it is an
\* own property), method ("" when absent), result and error.
JObj(hasId, id, method, result, error) ==
    [j |-> "obj", hasId |-> hasId, id |-> id, method |-> method,
     result |-> result, error |-> error]

Response(id, result) == JObj(TRUE, id, "", result, ErrAbsent)
ErrorResponse(id, err) == JObj(TRUE, id, "", JUndef, err)
Notification(method) == JObj(FALSE, 0, method, JUndef, ErrAbsent)
ServerRequest(id, method) == JObj(TRUE, id, method, JUndef, ErrAbsent)

\* A frame as the transport hands it over: text that JSON.parse accepts, or not.
BadText == [t |-> "bad"]
JsonText(v) == [t |-> "json", v |-> v]

\* JSON.stringify of a parsed value
Stringify(v) == JsonText(v)
\* JSON.parse: ok is FALSE when it throws SyntaxError
Parse(raw) ==
    IF raw.t = "json" THEN [ok |-> TRUE, v |-> raw.v] ELSE [ok |-> FALSE, v |-> JUndef]

\* "error": null
ErrNull == [e |-> "null"]

\* ToBoolean(msg.error)
ErrTruthy(err) == err.e = "obj"

\* --------------------------------------------------------- promise states
FNone == [st |-> "none"]
FThrew == [st |-> "threw"]
FPending == [st |-> "pending"]
Resolved(v) == [st |-> "resolved", val |-> v]
Rejected(why, info) == [st |-> "rejected", why |-> why, info |-> info]
TimeoutFailure == Rejected("timeout", JUndef)
AbortFailure == Rejected("abort", JUndef)
TransportFailure == Rejected("transport", JUndef)

\* new Error(msg.error.message || 'RPC Error') with code and data copied
RpcFailure(err) ==
    Rejected("rpc", [code |-> err.code,
                     message |-> IF err.message = "" THEN "RPC Error" ELSE err.message,
                     data |-> err.data])

\* ------------------------------------------------------------ wire messages
\* {jsonrpc:'2.0', id, method, params}
ReqMsg(id, method) == [k |-> "request", id |-> id, method |-> method]
\* {jsonrpc:'2.0', method, params}; id is the id member of params, 0 when it has none
NotifMsg(method, id) == [k |-> "notify", id |-> id, method |-> method]
CancelMsg(id) == NotifMsg("$/cancelRequest", id)
ExitMsg == NotifMsg("exit", 0)
KeepaliveMsg == NotifMsg("$/keepalive", 0)

Put(w, m) == w (+) SetToBag({m})

\* how many notifications without an id are on the wire
Unsolicited(w) ==
    BagCardinality([m \in {x \in BagToSet(w) : x.k = "notify" /\ x.id = 0} |-> w[m]])

\* ---------------------------------------------------------------- transport
\* The connection state of the transport, which it keeps in no field of its
\* own: what connect() and send() read off the current socket.
ConnState(sock, rs) ==
    IF sock = 0 THEN "Disconnected"
    ELSE IF rs[sock] = "OPEN" THEN "Open"
    ELSE IF rs[sock] = "CONNECTING" THEN "Connecting"
    ELSE "Disconnected"

\* WebSocketTransport.send passes its guard: a current socket, and it is OPEN
SendAllowed(sock, rs) == sock # 0 /\ rs[sock] = "OPEN"
CanSend == SendAllowed(ws, readyState)

\* TransportSend that drops the data without an error when the socket is not open
TransportSendSilent(can, w, m) ==
    [wire |-> IF can THEN Put(w, m) ELSE w, threw |-> FALSE]

\* TransportSend that hands the data to the socket whatever its state
TransportSendAnyway(can, w, m) == [wire |-> Put(w, m), threw |-> ~can]

\* WebSocketTransport.send(data): the wire after the call, and whether it threw
TransportSend(can, w, m) ==
    IF can THEN [wire |-> Put(w, m), threw |-> FALSE]
    ELSE [wire |-> w, threw |-> TRUE]

\* ------------------------------------------------------------------- engine
\* resolve()/reject() of a promise: only the first call settles it
Settle(f, outcome) == IF f.st = "pending" THEN outcome ELSE f

\* LookupEntry with the entries matched first-in first-out: the oldest entry
\* answers whatever id the response bears
LookupOldest(pend, id) ==
    IF id \in pend THEN CHOOSE x \in pend : \A y \in pend : x <= y ELSE 0

\* this._pending.get(msg.id): the key of the entry found, 0 when there is none
LookupEntry(pend, id) == IF id \in pend THEN id ELSE 0

\* The state one task works on: the engine's tables, the wire, the subscriber
\* table, the ids whose future the task settled (in order), the callbacks it
\* invoked (in order) and whether an exception escaped.
Task(pend, tm, fut, w, subs) ==
    [pending |-> pend, timers |-> tm, futures |-> fut, wire |-> w, subs |-> subs,
     settled |-> <<>>, emitted |-> <<>>, threw |-> FALSE]

\* entry.resolve / entry.reject / reject, called with an outcome
SettleIn(T, id, outcome) ==
    [T EXCEPT !.futures[id] = Settle(@, outcome),
              !.settled = IF T.futures[id].st = "pending" THEN Append(@, id) ELSE @]

\* the outcome _handleMessage gives the entry of a response
OutcomeOf(msg) ==
    IF ErrTruthy(msg.error) THEN RpcFailure(msg.error) ELSE Resolved(msg.result)

\* HandleResponse without `if (!entry) return`: entry.timer of undefined throws
HandleResponseUnguarded(T, msg) ==
    IF msg.id \notin T.pending THEN [T EXCEPT !.threw = TRUE]
    ELSE SettleIn([T EXCEPT !.timers = @ \ {msg.id}, !.pending = @ \ {msg.id}],
                  msg.id, OutcomeOf(msg))

\* HandleResponse that settles the future and leaves its timer armed
HandleResponseKeepsTimer(T, msg) ==
    IF msg.id \notin T.pending THEN T
    ELSE SettleIn([T EXCEPT !.pending = @ \ {msg.id}], msg.id, OutcomeOf(msg))

\* HandleResponse that settles the future and leaves its entry in the table
HandleResponseKeepsEntry(T, msg) ==
    IF msg.id \notin T.pending THEN T
    ELSE SettleIn([T EXCEPT !.timers = @ \ {msg.id}], msg.id, OutcomeOf(msg))

\* _handleMessage, the branch of a payload that has an own id
HandleResponse(T, msg) ==
    LET key == LookupEntry(T.pending, msg.id) IN
    IF key = 0 THEN T
    ELSE SettleIn([T EXCEPT !.timers = @ \ {key}, !.pending = @ \ {msg.id}],
                  key, OutcomeOf(msg))

\* the subscriber callbacks that raise when they are called
Throws == {"g"}

\* one call of a subscriber callback, as `emitted` records it
Call(cb, method) == [cb |-> cb, method |-> method]

\* the calls _emit makes over the Set hs when nothing catches: up to the first
\* callback that raises
RECURSIVE CallsUntilThrow(_, _)
CallsUntilThrow(hs, method) ==
    IF hs = <<>> THEN <<>>
    ELSE <<Call(Head(hs), method)>>
         \o (IF Head(hs) \in Throws THEN <<>> ELSE CallsUntilThrow(Tail(hs), method))

\* Emit without the try/catch around h(params)
EmitUncaught(T, method) ==
    IF method \notin DOMAIN T.subs THEN T
    ELSE [T EXCEPT !.emitted = @ \o CallsUntilThrow(T.subs[method], method),
                   !.threw = \E k \in 1..Len(T.subs[method]) : T.subs[method][k] \in Throws]

\* _emit(method, params): for (const h of hs) try { h(params) } catch { log }
Emit(T, method) ==
    IF method \notin DOMAIN T.subs THEN T
    ELSE [T EXCEPT !.emitted =
              @ \o [k \in 1..Len(T.subs[method]) |-> Call(T.subs[method][k], method)]]

\* _handleMessage after JSON.parse, for a value that is not an array
HandleValue(T, msg) ==
    CASE msg.j = "null" -> [T EXCEPT !.threw = TRUE]
      [] msg.j = "obj" ->
            IF msg.hasId THEN HandleResponse(T, msg)
            ELSE IF msg.method # "" THEN Emit(T, msg.method)
            ELSE T
      [] OTHER -> T

RECURSIVE HandleMessage(_, _)
RECURSIVE HandleBatch(_, _)
\* HandleBatch that dispatches the first element of the array only
HandleBatchFirstOnly(T, items) ==
    IF items = <<>> THEN T ELSE HandleMessage(T, Stringify(Head(items)))

\* for (const m of msg) this._handleMessage(JSON.stringify(m))
HandleBatch(T, items) ==
    IF items = <<>> \/ T.threw THEN T
    ELSE HandleBatch(HandleMessage(T, Stringify(Head(items))), Tail(items))

\* _handleMessage(raw)
HandleMessage(T, raw) ==
    LET p == Parse(raw) IN
    IF ~p.ok THEN T
    ELSE IF p.v.j = "arr" THEN HandleBatch(T, p.v.items)
    ELSE HandleValue(T, p.v)

\* notify(method, params)
NotifyIn(T, can, m) ==
    LET r == TransportSend(can, T.wire, m) IN
    [T EXCEPT !.wire = r.wire, !.threw = r.threw]

\* AbortOne without the try/catch around notify: when the send throws, the
\* rest of the listener does not run
AbortOneUncaught(T, can, id) ==
    IF ~can THEN [T EXCEPT !.threw = TRUE]
    ELSE SettleIn([NotifyIn(T, can, CancelMsg(id)) EXCEPT
                      !.timers = @ \ {id}, !.pending = @ \ {id}], id, AbortFailure)

\* AbortOne that rejects and clears the timer but leaves the pending entry
AbortOneKeepsEntry(T, can, id) ==
    LET sent == [NotifyIn(T, can, CancelMsg(id)) EXCEPT !.threw = FALSE] IN
    SettleIn([sent EXCEPT !.timers = @ \ {id}], id, AbortFailure)

\* the abort listener of request(): try { notify } catch {}, clearTimeout,
\* _pending.delete, reject
AbortOne(T, can, id) ==
    LET sent == [NotifyIn(T, can, CancelMsg(id)) EXCEPT !.threw = FALSE] IN
    SettleIn([sent EXCEPT !.timers = @ \ {id}, !.pending = @ \ {id}],
             id, AbortFailure)

\* TimeoutOne that sends the request again instead of rejecting
TimeoutOneRetries(T, id) ==
    [T EXCEPT !.wire = Put(@, ReqMsg(id, "textDocument/hover"))]

\* TimeoutOne that clears every timer when one fires
TimeoutOneClearsAll(T, id) ==
    SettleIn([T EXCEPT !.timers = {}, !.pending = @ \ {id}], id, TimeoutFailure)

\* TimeoutOne that disarms the timer and settles nothing
TimeoutOneDisarms(T, id) == [T EXCEPT !.timers = @ \ {id}]

\* TimeoutOne that rejects but leaves the pending entry
TimeoutOneKeepsEntry(T, id) ==
    SettleIn([T EXCEPT !.timers = @ \ {id}], id, TimeoutFailure)

\* the timer callback of request(): _pending.delete, reject
TimeoutOne(T, id) ==
    SettleIn([T EXCEPT !.timers = @ \ {id}, !.pending = @ \ {id}], id, TimeoutFailure)

\* a finite set of numbers as the ascending sequence
RECURSIVE Ascending(_)
Ascending(S) ==
    IF S = {} THEN <<>>
    ELSE LET m == CHOOSE x \in S : \A y \in S : x <= y IN <<m>> \o Ascending(S \ {m})

\* dispatch of the abort event: the listeners run in the order they were added
RECURSIVE AbortAll(_, _, _)
AbortAll(T, can, ids) ==
    IF ids = <<>> THEN T ELSE AbortAll(AbortOne(T, can, Head(ids)), can, Tail(ids))

\* ----------------------------------------------------------- session client
\* capabilities.textDocumentSync of an initialize result
SyncAbsent == [s |-> "absent"]
SyncNull == [s |-> "null"]
SyncNum(n) == [s |-> "num", n |-> n]
SyncText == [s |-> "str"]
ChangeAbsent == [c |-> "absent"]
ChangeNull == [c |-> "null"]
ChangeNum(n) == [c |-> "num", n |-> n]
SyncObj(change) == [s |-> "obj", change |-> change]

\* an initialize result {capabilities: {textDocumentSync: sync}}
InitResult(sync) == [j |-> "init", sync |-> sync]

\* (res.capabilities || {}).textDocumentSync
CapsOf(res) == IF res.j = "init" THEN res.sync ELSE SyncAbsent

\* let serverSyncKind = 1
DefaultSyncKind == 1

\* DeriveSync that reads the bare number only and never looks into an object
DeriveSyncNumberOnly(kind, sync) ==
    CASE sync.s = "num" -> [kind |-> sync.n, threw |-> FALSE]
      [] sync.s = "null" -> [kind |-> kind, threw |-> TRUE]
      [] OTHER -> [kind |-> kind, threw |-> FALSE]

\* initialize(), lines 77-79: the new serverSyncKind, and whether sync.change threw
DeriveSync(kind, sync) ==
    CASE sync.s = "num" -> [kind |-> sync.n, threw |-> FALSE]
      [] sync.s = "null" -> [kind |-> kind, threw |-> TRUE]
      [] sync.s = "obj" /\ sync.change.c = "num" ->
            [kind |-> sync.change.n, threw |-> FALSE]
      [] OTHER -> [kind |-> kind, threw |-> FALSE]

TypeFailure == Rejected("type", JUndef)

\* the session client's state a promise reaction works on
Client(cl, kind, caps, w) == [calls |-> cl, kind |-> kind, caps |-> caps, wire |-> w]

\* initialize() after `await rpc.request('initialize', params)`
InitializeCont(C, id, f) ==
    IF f.st = "rejected" THEN [C EXCEPT !.calls[id] = f]
    ELSE IF f.val.j \in {"null", "undefined"} THEN [C EXCEPT !.calls[id] = TypeFailure]
    ELSE LET caps == CapsOf(f.val)
             d == DeriveSync(C.kind, caps)
         IN [C EXCEPT !.caps = caps, !.kind = d.kind,
                      !.calls[id] = IF d.threw THEN TypeFailure ELSE Resolved(f.val)]

\* ShutdownCont that sends exit after a resolved shutdown request only
ShutdownContOnSuccess(C, can, id, f) ==
    IF f.st = "rejected" THEN [C EXCEPT !.calls[id] = f]
    ELSE LET r == TransportSend(can, C.wire, ExitMsg) IN
         [C EXCEPT !.wire = r.wire,
                   !.calls[id] = IF r.threw THEN TransportFailure ELSE f]

\* shutdown() after `await rpc.request('shutdown')`: finally { rpc.notify('exit') }
ShutdownCont(C, can, id, f) ==
    LET r == TransportSend(can, C.wire, ExitMsg) IN
    [C EXCEPT !.wire = r.wire,
              !.calls[id] = IF r.threw THEN TransportFailure ELSE f]

\* the reaction of the caller that awaits request id
Reaction(C, can, fut, who, id) ==
    CASE who[id] = "initialize" -> InitializeCont(C, id, fut[id])
      [] who[id] = "shutdown" -> ShutdownCont(C, can, id, fut[id])
      [] OTHER -> C

\* the microtask checkpoint: the reactions of the futures settled, in order
RECURSIVE Reactions(_, _, _, _, _)
Reactions(C, can, fut, who, ids) ==
    IF ids = <<>> THEN C
    ELSE Reactions(Reaction(C, can, fut, who, Head(ids)), can, fut, who, Tail(ids))

\* --------------------------------------------------------------- bookkeeping
\* what a payload is to _handleMessage
Kind(raw) ==
    IF raw.t # "json" THEN "bad"
    ELSE IF raw.v.j = "arr" THEN "batch"
    ELSE IF raw.v.j = "obj" /\ raw.v.hasId THEN "response"
    ELSE IF raw.v.j = "obj" /\ raw.v.method # "" THEN "notification"
    ELSE raw.v.j

\* msg.id of a frame that is one response, else 0
IdOf(raw) == IF raw.t = "json" /\ raw.v.j = "obj" /\ raw.v.hasId THEN raw.v.id ELSE 0

Last(op, id, tok, kind, n, threw) ==
    [op |-> op, id |-> id, tok |-> tok, kind |-> kind, n |-> n, threw |-> threw]

\* The handler createLspClient registers for textDocument/publishDiagnostics:
\* _listeners.publishDiagnostics.forEach(h => h(p)), once for every call _emit
\* made of it; nothing catches, so forEach ends at the first callback that raises.
RECURSIVE FanOut(_, _)
FanOut(called, ls) ==
    IF called = <<>> THEN <<>>
    ELSE (IF Head(called).cb = "fanout" THEN CallsUntilThrow(ls, Head(called).method)
          ELSE <<>>)
         \o FanOut(Tail(called), ls)

Now == Task(pending, timers, futures, wire, handlers)

\* the end of a task: its engine state, then the reactions it scheduled
Commit(T, l) ==
    LET C == Reactions(Client(calls, serverSyncKind, serverCapabilities, T.wire),
                       CanSend, T.futures, callers, T.settled)
    IN /\ pending' = T.pending
       /\ timers' = T.timers
       /\ futures' = T.futures
       /\ wire' = C.wire
       /\ calls' = C.calls
       /\ serverSyncKind' = C.kind
       /\ serverCapabilities' = C.caps
       /\ emitted' = T.emitted
       /\ diagnosed' = FanOut(T.emitted, diagListeners)
       /\ last' = l

\* ------------------------------------------------ sessions side by side
Instances == {"A", "B"}

\* createLspClient(): a transport and an engine of its own
NewSession ==
    [ws |-> 0, readyState |-> [s \in Sockets |-> "NONE"],
     nextId |-> 1, pending |-> {}, timers |-> {}, futures |-> [i \in Ids |-> FNone],
     listeners |-> {}, aborted |-> FALSE, wire |-> EmptyBag]

\* ------------------------------------------------------------------ inputs
RequestMethods == {"textDocument/hover"}
NotifyMethods == {"exit", "$/cancelRequest"}
Err1 == ErrObj(7, "boom", JStr("d"))

\* the result the server computes for request i
ResultFor(i) == JStr(IF i = 1 THEN "a" ELSE "b")

\* what the server may put in one frame
Elements ==
    {Response(i, ResultFor(i)) : i \in Ids}
    \cup {ErrorResponse(i, Err1) : i \in Ids}
    \cup {ServerRequest(2, "workspace/configuration"),
          Notification("window/showMessage"), JNull, JNum(7)}

\* what the server may put in one element of a batch
BatchElements ==
    {Response(i, ResultFor(i)) : i \in Ids \ {2}} \cup {ErrorResponse(2, Err1), JNull}

\* elements of a batch
MaxBatch == 2

Batches == UNION {[1..n -> BatchElements] : n \in 0..MaxBatch}

Inbound ==
    {BadText} \cup {JsonText(v) : v \in Elements}
    \cup {JsonText(JArr(b)) : b \in Batches}

\* initialize results, and what else the server may answer a session client
InitSyncs ==
    {SyncAbsent, SyncNull, SyncNum(2), SyncNum(3), SyncObj(ChangeAbsent),
     SyncObj(ChangeNull), SyncObj(ChangeNum(1)), SyncObj(ChangeNum(2))}

InboundClient ==
    {JsonText(Response(i, InitResult(y))) : i \in Ids, y \in InitSyncs}
    \cup {JsonText(Response(i, JNull)) : i \in Ids}
    \cup {JsonText(Response(i, JUndef)) : i \in Ids}
    \cup {JsonText(ErrorResponse(i, Err1)) : i \in Ids}

\* the answers to request 1: a result, and the error members a server may send
ErrorCases ==
    {Err1, ErrObj(0, "boom", JUndef), ErrObj(7, "", JStr("d")), ErrNull}
InboundResponses ==
    {JsonText(Response(1, ResultFor(1)))}
    \cup {JsonText(ErrorResponse(1, e)) : e \in ErrorCases}

\* what the server of an instance answers
InboundPeers == {JsonText(Response(i, ResultFor(i))) : i \in 1..MaxPeerId}

\* one response in a frame, for every id the engine may have allocated
InboundEngine ==
    {JsonText(Response(i, ResultFor(i))) : i \in Ids}
    \cup {JsonText(ErrorResponse(i, Err1)) : i \in Ids}

\* the methods the callers subscribe to, and the callbacks they pass to on()
SubMethods == {"window/showMessage", "textDocument/publishDiagnostics"}
Callbacks == {"f", "g", "h"}
\* closures returned by on() that were not called yet
MaxRegs == 3
\* the on(method, handler) calls the callers make
Subscriptions ==
    {<<"window/showMessage", cb>> : cb \in Callbacks}
    \cup {<<"textDocument/publishDiagnostics", "f">>}

\* the notifications the server sends: methods with subscribers, and one without
InboundSubs ==
    {JsonText(Notification(m)) : m \in SubMethods \cup {"window/logMessage"}}

\* -------------------------------------------------------------------- state
Construct(hs) ==
    /\ ws = 0
    /\ readyState = [s \in Sockets |-> "NONE"]
    /\ connected = FALSE
    /\ kaTimer = FALSE
    /\ nextId = 1
    /\ pending = {}
    /\ timers = {}
    /\ futures = [i \in Ids |-> FNone]
    /\ listeners = [t \in Tokens |-> {}]
    /\ aborted = {}
    /\ wire = EmptyBag
    /\ callers = [i \in Ids |-> "none"]
    /\ calls = [i \in Ids |-> FNone]
    /\ serverSyncKind = DefaultSyncKind
    /\ serverCapabilities = SyncAbsent
    /\ handlers = hs
    /\ diagListeners = <<>>
    /\ diagnosed = <<>>
    /\ handles = [x \in Subscriptions |-> [live |-> 0, spent |-> FALSE]]
    /\ emitted = <<>>
    /\ peers = [k \in Instances |-> NewSession]
    /\ last = Last("init", 0, NoToken, "", 0, FALSE)

\* new JsonRpc(transport): no subscriber yet
Init == Construct([m \in SubMethods |-> <<>>])

\* the three rpc.on(...) calls of createLspClient
ClientHandlers ==
    [m \in {"window/showMessage", "textDocument/publishDiagnostics",
            "client/registerCapability"} |->
        IF m = "textDocument/publishDiagnostics" THEN <<"fanout">> ELSE <<"log">>]

\* createLspClient(): the engine with the session client's handlers subscribed
InitSession == Construct(ClientHandlers)

\* --------------------------------------------------------- transport actions
\* the sockets `new WebSocket(url)` has not created yet
Fresh == {s \in Sockets : readyState[s] = "NONE"}

\* ConnectIsNoop that always opens a new socket
ConnectIsNoopNever(sock, rs) == FALSE

\* ConnectIsNoop that lets a connecting socket be replaced
ConnectIsNoopWhenOpen(sock, rs) == sock # 0 /\ rs[sock] = "OPEN"

\* the guard of connect(): already connecting or open
ConnectIsNoop(sock, rs) == sock # 0 /\ rs[sock] \in {"OPEN", "CONNECTING"}

\* WebSocketTransport.connect()
TConnect ==
    /\ IF ConnectIsNoop(ws, readyState)
       THEN UNCHANGED <<ws, readyState>>
       ELSE /\ Fresh # {}
            /\ LET s == CHOOSE x \in Fresh : \A y \in Fresh : x <= y IN
               /\ ws' = s
               /\ readyState' = [readyState EXCEPT ![s] = "CONNECTING"]
    /\ last' = Last("connect", 0, NoToken, "", 0, FALSE)
    /\ UNCHANGED <<restVars, emitted, diagnosed, connected, kaTimer, engineVars, wire, clientVars>>

\* keepaliveSec, by default
KeepaliveSec == 30

\* the 'open' listener of socket s
SocketOpen(s) ==
    /\ readyState[s] = "CONNECTING"
    /\ readyState' = [readyState EXCEPT ![s] = "OPEN"]
    /\ connected' = TRUE
    /\ kaTimer' = IF KeepaliveSec > 0 THEN TRUE ELSE kaTimer
    /\ last' = Last("open", s, NoToken, "", 0, FALSE)
    /\ UNCHANGED <<restVars, emitted, diagnosed, ws, engineVars, wire, clientVars>>

\* SocketClose that rejects the requests in flight with a transport error
SocketCloseRejectsPending(s) ==
    /\ readyState[s] \in {"CONNECTING", "OPEN", "CLOSING"}
    /\ readyState' = [readyState EXCEPT ![s] = "CLOSED"]
    /\ connected' = FALSE
    /\ kaTimer' = FALSE
    /\ futures' = [i \in Ids |-> IF i \in pending THEN TransportFailure ELSE futures[i]]
    /\ pending' = {}
    /\ timers' = {}
    /\ last' = Last("close", s, NoToken, readyState[s], 0, FALSE)
    /\ UNCHANGED <<restVars, emitted, diagnosed, ws, nextId, listeners, aborted, wire, clientVars>>

\* SocketClose that leaves the keepalive interval armed
SocketCloseKeepsTimer(s) ==
    /\ readyState[s] \in {"CONNECTING", "OPEN", "CLOSING"}
    /\ readyState' = [readyState EXCEPT ![s] = "CLOSED"]
    /\ connected' = FALSE
    /\ last' = Last("close", s, NoToken, readyState[s], 0, FALSE)
    /\ UNCHANGED <<restVars, emitted, diagnosed, ws, kaTimer, engineVars, wire, clientVars>>

\* SocketClose that opens a new socket when the current one closed
SocketCloseReconnects(s) ==
    /\ readyState[s] \in {"CONNECTING", "OPEN", "CLOSING"}
    /\ IF s = ws /\ Fresh # {}
       THEN LET n == CHOOSE x \in Fresh : \A y \in Fresh : x <= y IN
            /\ ws' = n
            /\ readyState' = [readyState EXCEPT ![s] = "CLOSED", ![n] = "CONNECTING"]
       ELSE /\ ws' = ws
            /\ readyState' = [readyState EXCEPT ![s] = "CLOSED"]
    /\ connected' = FALSE
    /\ kaTimer' = FALSE
    /\ last' = Last("close", s, NoToken, readyState[s], 0, FALSE)
    /\ UNCHANGED <<restVars, emitted, diagnosed, engineVars, wire, clientVars>>

\* the 'close' listener of socket s: the peer closed, the connection failed
\* (the 'error' listener, which runs before it in the same task, changes
\* nothing), or close() completed
SocketClose(s) ==
    /\ readyState[s] \in {"CONNECTING", "OPEN", "CLOSING"}
    /\ readyState' = [readyState EXCEPT ![s] = "CLOSED"]
    /\ connected' = FALSE
    /\ kaTimer' = FALSE
    /\ last' = Last("close", s, NoToken, readyState[s], 0, FALSE)
    /\ UNCHANGED <<restVars, emitted, diagnosed, ws, engineVars, wire, clientVars>>

\* WebSocketTransport.disconnect()
TDisconnect ==
    /\ kaTimer' = FALSE
    /\ readyState' = IF ws # 0 /\ readyState[ws] \in {"CONNECTING", "OPEN"}
                     THEN [readyState EXCEPT ![ws] = "CLOSING"]
                     ELSE readyState
    /\ ws' = 0
    /\ connected' = FALSE
    /\ last' = Last("disconnect", 0, NoToken, "", 0, FALSE)
    /\ UNCHANGED <<restVars, emitted, diagnosed, engineVars, wire, clientVars>>

\* the keepalive interval callback
KeepaliveTick ==
    /\ kaTimer
    /\ Unsolicited(wire) < MaxWire
    /\ wire' = IF ws # 0 /\ readyState[ws] = "OPEN" THEN Put(wire, KeepaliveMsg) ELSE wire
    /\ last' = Last("keepalive", 0, NoToken, "", 0, FALSE)
    /\ UNCHANGED <<restVars, emitted, diagnosed, transportVars, engineVars, clientVars>>

\* ------------------------------------------------------------ engine actions
\* AllocId that leaves the counter where it was
AllocIdStuck(n) == n

\* this._id++
AllocId(n) == n + 1

\* request(method, params, {signal}), called by `who` of the session client
\* ("none": by the caller of the engine)
RequestCore(method, tok, who) ==
    LET id == nextId
        r == TransportSend(CanSend, wire, ReqMsg(id, method))
    IN /\ nextId <= MaxId
       /\ nextId' = AllocId(nextId)
       /\ callers' = [callers EXCEPT ![id] = who]
       /\ IF r.threw
          THEN /\ futures' = [futures EXCEPT ![id] = FThrew]
               /\ wire' = IF who = "shutdown"
                          THEN TransportSend(CanSend, r.wire, ExitMsg).wire
                          ELSE r.wire
               /\ calls' = [calls EXCEPT ![id] =
                                IF who = "none" THEN FNone ELSE TransportFailure]
               /\ UNCHANGED <<pending, timers, listeners>>
          ELSE /\ futures' = [futures EXCEPT ![id] = FPending]
               /\ wire' = r.wire
               /\ timers' = timers \cup {id}
               /\ pending' = pending \cup {id}
               /\ listeners' = IF tok = NoToken THEN listeners
                               ELSE [listeners EXCEPT ![tok] = @ \cup {id}]
               /\ calls' = [calls EXCEPT ![id] =
                                IF who = "none" THEN FNone ELSE FPending]
       /\ last' = Last("request", id, tok, method, 0, r.threw)
       /\ UNCHANGED <<restVars, emitted, diagnosed, transportVars, aborted, serverSyncKind, serverCapabilities>>

Request(method, tok) == RequestCore(method, tok, "none")

\* Notify that draws an id from the counter, as request() does
NotifyAllocates(method, p) ==
    LET r == TransportSend(CanSend, wire, NotifMsg(method, p)) IN
    /\ Unsolicited(wire) < MaxWire
    /\ wire' = r.wire
    /\ nextId' = nextId + 1
    /\ last' = Last("notify", p, NoToken, method, 0, r.threw)
    /\ UNCHANGED <<restVars, emitted, diagnosed, transportVars, pending, timers, futures, listeners, aborted, clientVars>>

\* notify(method, params) called by the caller of the engine
Notify(method, p) ==
    LET r == TransportSend(CanSend, wire, NotifMsg(method, p)) IN
    /\ Unsolicited(wire) < MaxWire
    /\ wire' = r.wire
    /\ last' = Last("notify", p, NoToken, method, 0, r.threw)
    /\ UNCHANGED <<restVars, emitted, diagnosed, transportVars, engineVars, clientVars>>

\* the timeout timer of request id fires
Timeout(id) ==
    /\ id \in timers
    /\ LET T == TimeoutOne(Now, id) IN
       Commit(T, Last("timeout", id, NoToken, "", Len(T.settled), FALSE))
    /\ UNCHANGED <<restVars, transportVars, nextId, listeners, aborted, callers>>

\* the signal tok aborts
Abort(tok) ==
    /\ tok \notin aborted
    /\ aborted' = aborted \cup {tok}
    /\ listeners' = [listeners EXCEPT ![tok] = {}]
    /\ LET T == AbortAll(Now, CanSend, Ascending(listeners[tok])) IN
       Commit(T, Last("abort", 0, tok, "", Len(T.settled), FALSE))
    /\ UNCHANGED <<restVars, transportVars, nextId, callers>>

\* the 'message' listener: the transport hands raw to _handleMessage
Deliver(raw) ==
    /\ CanSend
    /\ LET T == HandleMessage(Now, raw) IN
       Commit(T, Last("message", IdOf(raw), NoToken, Kind(raw), Len(T.settled), T.threw))
    /\ UNCHANGED <<restVars, transportVars, nextId, listeners, aborted, callers>>

\* Set.prototype.add and Set.prototype.delete on a Set kept in insertion order
SetAdd(hs, cb) == IF \E k \in 1..Len(hs) : hs[k] = cb THEN hs ELSE Append(hs, cb)
SetDelete(hs, cb) == SelectSeq(hs, LAMBDA x : x # cb)

\* how many closures returned by on() for the pairs in S were not called yet
RECURSIVE LiveHandles(_, _)
LiveHandles(hd, S) ==
    IF S = {} THEN 0
    ELSE LET x == CHOOSE y \in S : TRUE IN hd[x].live + LiveHandles(hd, S \ {x})

\* on(method, handler), which returns a new closure
On(method, cb) ==
    /\ LiveHandles(handles, Subscriptions) < MaxRegs
    /\ handlers' = [handlers EXCEPT ![method] = SetAdd(@, cb)]
    /\ handles' = [handles EXCEPT ![<<method, cb>>].live = @ + 1]
    /\ last' = Last("on", 0, NoToken, method, 0, FALSE)
    /\ UNCHANGED <<transportVars, engineVars, wire, clientVars, emitted, peers,
                 diagListeners, diagnosed>>

\* a closure on() returned is called: this._handlers.get(method)?.delete(handler);
\* `again`: the closure was called before
Off(method, cb, again) ==
    /\ IF again
       THEN handles[<<method, cb>>].spent /\ UNCHANGED handles
       ELSE /\ handles[<<method, cb>>].live > 0
            /\ handles' = [handles EXCEPT ![<<method, cb>>] =
                               [live |-> @.live - 1, spent |-> TRUE]]
    /\ handlers' = [handlers EXCEPT ![method] = SetDelete(@, cb)]
    /\ last' = Last("off", 0, NoToken, method, 0, FALSE)
    /\ UNCHANGED <<transportVars, engineVars, wire, clientVars, emitted, peers,
                 diagListeners, diagnosed>>

\* onPublishDiagnostics(cb)
OnPublishDiagnostics(cb) ==
    /\ diagListeners' = SetAdd(diagListeners, cb)
    /\ last' = Last("onDiagnostics", 0, NoToken, cb, 0, FALSE)
    /\ UNCHANGED <<transportVars, engineVars, wire, clientVars, handlers, handles,
                   emitted, diagnosed, peers>>

\* the closure onPublishDiagnostics(cb) returned, called while cb is subscribed
OffPublishDiagnostics(cb) ==
    /\ \E k \in 1..Len(diagListeners) : diagListeners[k] = cb
    /\ diagListeners' = SetDelete(diagListeners, cb)
    /\ last' = Last("offDiagnostics", 0, NoToken, cb, 0, FALSE)
    /\ UNCHANGED <<transportVars, engineVars, wire, clientVars, handlers, handles,
                   emitted, diagnosed, peers>>

\* ------------------------------------------------- sessions side by side
\* The fields of an instance live on `this`: a step of instance k writes p back
\* to k. StoreShared keeps the pending table and the id counter in one place
\* for all instances.
StoreShared(ps, k, p) ==
    [j \in DOMAIN ps |->
        IF j = k THEN p ELSE [ps[j] EXCEPT !.pending = p.pending, !.nextId = p.nextId]]

\* this._id, this._pending, ... = ...: the state of instance k after its step
Store(ps, k, p) == [ps EXCEPT ![k] = p]

PeerCan(p) == SendAllowed(p.ws, p.readyState)
PeerTask(p) == Task(p.pending, p.timers, p.futures, p.wire, [m \in SubMethods |-> <<>>])
\* the instance after a task of its engine
After(p, T) ==
    [p EXCEPT !.pending = T.pending, !.timers = T.timers,
              !.futures = T.futures, !.wire = T.wire]

\* the step instance k ran last
PeerLast(op, k, id) == Last(op, id, NoToken, k, 0, FALSE)

PeerFrame ==
    UNCHANGED <<transportVars, engineVars, wire, clientVars, handlers, handles, emitted,
                diagListeners, diagnosed>>

\* transport.connect() of instance k
PeerConnect(k) ==
    LET p == peers[k]
        fresh == {s \in Sockets : p.readyState[s] = "NONE"}
    IN /\ IF ConnectIsNoop(p.ws, p.readyState)
          THEN peers' = Store(peers, k, p)
          ELSE /\ fresh # {}
               /\ LET s == CHOOSE x \in fresh : \A y \in fresh : x <= y IN
                  peers' = Store(peers, k, [p EXCEPT !.ws = s,
                                                     !.readyState[s] = "CONNECTING"])
       /\ last' = PeerLast("peer-connect", k, 0)
       /\ PeerFrame

\* the 'open' listener of socket s of instance k
PeerOpen(k, s) ==
    /\ peers[k].readyState[s] = "CONNECTING"
    /\ peers' = Store(peers, k, [peers[k] EXCEPT !.readyState[s] = "OPEN"])
    /\ last' = PeerLast("peer-open", k, s)
    /\ PeerFrame

\* the 'close' listener of socket s of instance k
PeerClose(k, s) ==
    /\ peers[k].readyState[s] \in {"CONNECTING", "OPEN"}
    /\ peers' = Store(peers, k, [peers[k] EXCEPT !.readyState[s] = "CLOSED"])
    /\ last' = PeerLast("peer-close", k, s)
    /\ PeerFrame

\* rpc.request(method, params, {signal}) of instance k, with the token of k
PeerRequest(k, method) ==
    LET p == peers[k]
        id == p.nextId
        r == TransportSend(PeerCan(p), p.wire, ReqMsg(id, method))
        q == [p EXCEPT !.nextId = AllocId(id)]
    IN /\ id <= MaxPeerId
       /\ peers' = Store(peers, k,
              IF r.threw THEN [q EXCEPT !.futures[id] = FThrew]
              ELSE [q EXCEPT !.futures[id] = FPending, !.wire = r.wire,
                             !.timers = @ \cup {id}, !.pending = @ \cup {id},
                             !.listeners = @ \cup {id}])
       /\ last' = PeerLast("peer-request", k, id)
       /\ PeerFrame

\* the timeout timer of request id of instance k fires
PeerTimeout(k, id) ==
    /\ id \in peers[k].timers
    /\ peers' = Store(peers, k, After(peers[k], TimeoutOne(PeerTask(peers[k]), id)))
    /\ last' = PeerLast("peer-timeout", k, id)
    /\ PeerFrame

\* the token of instance k triggers
PeerAbort(k) ==
    LET p == peers[k]
        T == AbortAll(PeerTask(p), PeerCan(p), Ascending(p.listeners))
    IN /\ ~p.aborted
       /\ peers' = Store(peers, k, [After(p, T) EXCEPT !.aborted = TRUE, !.listeners = {}])
       /\ last' = PeerLast("peer-abort", k, 0)
       /\ PeerFrame

\* the 'message' listener of instance k hands raw to its _handleMessage
PeerDeliver(k, raw) ==
    /\ PeerCan(peers[k])
    /\ peers' = Store(peers, k, After(peers[k], HandleMessage(PeerTask(peers[k]), raw)))
    /\ last' = PeerLast("peer-message", k, IdOf(raw))
    /\ PeerFrame

\* ------------------------------------------------------------ client actions
\* initialize(params)
Initialize == RequestCore("initialize", NoToken, "initialize")

\* shutdown()
Shutdown == RequestCore("shutdown", NoToken, "shutdown")

\* ----------------------------------------------------------- specifications
Transport ==
    \/ TConnect
    \/ TDisconnect
    \/ \E s \in Sockets : SocketOpen(s)
    \/ \E s \in Sockets : SocketClose(s)

\* the engine and its transport, driven by the engine's callers
Next ==
    \/ Transport
    \/ KeepaliveTick
    \/ \E m \in RequestMethods, t \in Tokens \cup {NoToken} : Request(m, t)
    \/ \E m \in NotifyMethods : Notify(m, 0)
    \/ \E i \in Ids : Timeout(i)
    \/ \E t \in Tokens : Abort(t)
    \/ \E raw \in Inbound : Deliver(raw)

Spec == Init /\ [][Next]_vars

\* the session client and its transport, driven by initialize() and shutdown()
NextClient ==
    \/ Transport
    \/ Initialize
    \/ Shutdown
    \/ \E i \in Ids : Timeout(i)
    \/ \E raw \in InboundClient : Deliver(raw)

SpecClient == Init /\ [][NextClient]_vars

\* two sessions, each with its transport, its engine and its server
NextPeers ==
    \E k \in Instances :
        \/ PeerConnect(k)
        \/ \E s \in Sockets : PeerOpen(k, s)
        \/ \E s \in Sockets : PeerClose(k, s)
        \/ \E m \in RequestMethods : PeerRequest(k, m)
        \/ \E i \in 1..MaxPeerId : PeerTimeout(k, i)
        \/ PeerAbort(k)
        \/ \E raw \in InboundPeers : PeerDeliver(k, raw)

SpecPeers == Init /\ [][NextPeers]_vars

\* the engine and its transport: requests with and without a token, their
\* timers, their tokens and their responses, one response in a frame
NextEngine ==
    \/ Transport
    \/ \E m \in RequestMethods, t \in Tokens \cup {NoToken} : Request(m, t)
    \/ \E i \in Ids : Timeout(i)
    \/ \E t \in Tokens : Abort(t)
    \/ \E raw \in InboundEngine : Deliver(raw)

SpecEngine == Init /\ [][NextEngine]_vars

\* the same, where a timer that is armed fires in the end (setTimeout)
SpecEngineLive == SpecEngine /\ \A i \in Ids : WF_vars(Timeout(i))

\* the notifications the server sends a session client
InboundSession ==
    {JsonText(Notification(m)) :
        m \in {"textDocument/publishDiagnostics", "window/showMessage"}}

\* the session client and its diagnostics subscribers
NextSession ==
    \/ TConnect
    \/ \E s \in Sockets : SocketOpen(s)
    \/ \E cb \in Callbacks : OnPublishDiagnostics(cb)
    \/ \E cb \in Callbacks : OffPublishDiagnostics(cb)
    \/ \E raw \in InboundSession : Deliver(raw)

SpecSession == InitSession /\ [][NextSession]_vars

\* the transport alone: its sockets, its keepalive and the frames handed to send
NextTransport ==
    \/ Transport
    \/ KeepaliveTick
    \/ \E m \in NotifyMethods : Notify(m, 0)

SpecTransport == Init /\ [][NextTransport]_vars

\* the engine's subscriptions, driven by on(), the handles it returned and the
\* notifications of the server
NextSubs ==
    \/ TConnect
    \/ \E s \in Sockets : SocketOpen(s)
    \/ \E x \in Subscriptions : On(x[1], x[2])
    \/ \E x \in Subscriptions, again \in BOOLEAN : Off(x[1], x[2], again)
    \/ \E raw \in InboundSubs : Deliver(raw)

SpecSubs == Init /\ [][NextSubs]_vars

\* the engine and its transport, answered with results and errors
NextResponses ==
    \/ Transport
    \/ \E m \in RequestMethods : Request(m, NoToken)
    \/ \E i \in Ids : Timeout(i)
    \/ \E raw \in InboundResponses : Deliver(raw)

SpecResponses == Init /\ [][NextResponses]_vars

\* -------------------------------------------------------------------- claims
\* the elements of a frame: of a batch its items, else the value itself
ElementsOf(raw) ==
    IF raw.t # "json" THEN {}
    ELSE IF raw.v.j = "arr" THEN {raw.v.items[k] : k \in DOMAIN raw.v.items}
    ELSE {raw.v}

\* f is the settlement a response payload m calls for: rejected with the members
\* of its error object, or resolved with its result
FromResponse(f, m) ==
    IF m.error.e = "obj"
    THEN /\ f.st = "rejected"
         /\ f.why = "rpc"
         /\ f.info.code = m.error.code
         /\ f.info.data = m.error.data
    ELSE f = [st |-> "resolved", val |-> m.result]

\* the engine's and the session client's state, without the transport and `last`
Untouched == UNCHANGED <<engineVars, wire, clientVars>>

\* C1: with any number of requests in flight and responses arriving in any order, a
\* future is settled at most once, and it is resolved, or rejected with an RPC
\* error, only by a frame that holds a response bearing that request's own id, with
\* the result/error of that response.
C1_NoCrossTalk ==
    [][\A i \in Ids :
          /\ futures[i].st \in {"resolved", "rejected", "threw"} => futures'[i] = futures[i]
          /\ (/\ futures'[i] # futures[i]
              /\ \/ futures'[i].st = "resolved"
                 \/ futures'[i].st = "rejected" /\ futures'[i].why = "rpc")
             => /\ futures[i].st = "pending"
                /\ \E raw \in Inbound :
                      /\ Deliver(raw)
                      /\ \E m \in ElementsOf(raw) :
                            m.j = "obj" /\ m.hasId /\ m.id = i /\ FromResponse(futures'[i], m)
      ]_vars

\* C1 witness: request 2 was answered while request 1, issued before it, is still
\* in flight
C1_Witness ==
    /\ last.op = "message"
    /\ last.id = 2
    /\ futures[2] = Resolved(JStr("b"))
    /\ futures[1].st = "pending"

\* C2 as claimed: every cancelled request has exactly one $/cancelRequest with its
\* id on the wire
C2_ExactlyOneCancelSent ==
    \A i \in Ids : futures[i] = AbortFailure => CopiesIn(CancelMsg(i), wire) = 1

\* C2 amended: when the token of a pending request triggers, one $/cancelRequest
\* with its id is sent if the transport is Open and none otherwise (never more than
\* one in all), its timer and pending entry are removed and its future rejects with
\* the cancellation failure; a response for that id arriving afterwards changes
\* nothing.
C2_Cancel ==
    [][/\ \A t \in Tokens : \A i \in listeners[t] \cap pending :
             Abort(t) =>
                /\ CopiesIn(CancelMsg(i), wire') =
                       CopiesIn(CancelMsg(i), wire) + (IF CanSend THEN 1 ELSE 0)
                /\ CopiesIn(CancelMsg(i), wire') <= 1
                /\ i \notin pending'
                /\ i \notin timers'
                /\ futures'[i] = AbortFailure
       /\ \A i \in Ids : \A raw \in Inbound :
             (futures[i] = AbortFailure /\ IdOf(raw) = i /\ Deliver(raw))
                => Untouched /\ ~last'.threw /\ last'.n = 0
      ]_vars

\* C2 witness: a response arrived for a request that was cancelled with the
\* transport open
C2_Witness ==
    /\ last.op = "message"
    /\ last.id \in Ids
    /\ futures[last.id] = AbortFailure
    /\ CopiesIn(CancelMsg(last.id), wire) = 1

\* C3: when the timeout timer of a pending request fires, the request leaves the
\* pending table and its future rejects with the timeout failure; a response for
\* that id arriving afterwards changes nothing and raises nothing.
C3_Timeout ==
    [][/\ \A i \in pending :
             Timeout(i) => i \notin pending' /\ i \notin timers' /\ futures'[i] = TimeoutFailure
       /\ \A i \in Ids : \A raw \in Inbound :
             (futures[i] = TimeoutFailure /\ IdOf(raw) = i /\ Deliver(raw))
                => Untouched /\ ~last'.threw /\ last'.n = 0
      ]_vars

\* C3 witness: a response arrived for a request that had timed out
C3_Witness ==
    /\ last.op = "message"
    /\ last.id \in Ids
    /\ futures[last.id] = TimeoutFailure

\* C4: a response whose id has no pending entry changes neither the pending table,
\* the timers, the id counter nor any future, sends nothing and raises nothing.
C4_UnmatchedIgnored ==
    [][\A raw \in Inbound :
          (Kind(raw) = "response" /\ IdOf(raw) \notin pending /\ Deliver(raw))
             => Untouched /\ ~last'.threw
      ]_vars

\* C4 witness: a second response arrived for a request already answered, while
\* another request was pending
C4_Witness ==
    /\ last.op = "message"
    /\ last.kind = "response"
    /\ last.n = 0
    /\ last.id \in Ids
    /\ futures[last.id].st = "resolved"
    /\ pending # {}

\* C5: notify(), for any method and in any state, leaves the pending table, the
\* timers, the id counter and every future as they are.
C5_NotifyFrame ==
    [][\A m \in NotifyMethods :
          Notify(m, 0) => UNCHANGED <<pending, timers, nextId, futures, calls>>
      ]_vars

\* C5 witness: a notification was sent while a request was pending
C5_Witness ==
    /\ last.op = "notify"
    /\ ~last.threw
    /\ pending # {}

\* the batches C6 is about: responses only, for pending ids, no two for one id
ResponsesFor(items, pend) ==
    /\ items # <<>>
    /\ \A k \in DOMAIN items : items[k].j = "obj" /\ items[k].hasId /\ items[k].id \in pend
    /\ \A k, l \in DOMAIN items : k # l => items[k].id # items[l].id

BatchIds(items) == {items[k].id : k \in DOMAIN items}

\* the frames of a batch delivered one after the other
RECURSIVE OneByOne(_, _)
OneByOne(T, items) ==
    IF items = <<>> THEN T
    ELSE OneByOne(HandleMessage(T, JsonText(Head(items))), Tail(items))

\* C6: a batch of k responses for k distinct pending ids settles exactly those k
\* entries, each with the result/error of its own element, leaves every other
\* entry as it is, and ends in the state the k responses delivered one by one
\* would end in.
C6_Batch ==
    [][\A items \in Batches :
          (ResponsesFor(items, pending) /\ Deliver(JsonText(JArr(items))))
             => /\ pending' = pending \ BatchIds(items)
                /\ timers' = timers \ BatchIds(items)
                /\ \A k \in DOMAIN items : FromResponse(futures'[items[k].id], items[k])
                /\ \A i \in Ids \ BatchIds(items) : futures'[i] = futures[i]
                /\ LET T == OneByOne(Now, items) IN
                      /\ pending' = T.pending
                      /\ timers' = T.timers
                      /\ futures' = T.futures
                /\ ~last'.threw
      ]_vars

\* C6 witness: one batch settled two pending requests
C6_Witness ==
    /\ last.op = "message"
    /\ last.kind = "batch"
    /\ last.n = 2
    /\ futures[1] = Resolved(JStr("a"))
    /\ futures[2].st = "rejected"

\* the ids request() has allocated so far
Allocated == {i \in Ids : futures[i].st # "none"}

\* C7: the first request() gets id 1, every later one an id greater than every id
\* allocated before it, and no id is allocated twice, whatever happened in between.
C7_FreshIds ==
    [][\A m \in RequestMethods : \A t \in Tokens \cup {NoToken} :
          Request(m, t) =>
             /\ last'.id \notin Allocated
             /\ \A j \in Allocated : j < last'.id
             /\ Allocated = {} => last'.id = 1
             /\ Allocated' = Allocated \cup {last'.id}
      ]_vars

\* C7 witness: id 2 was allocated after the send of request 1 had failed and the
\* transport had reconnected on a second socket
C7_Witness ==
    /\ last.op = "request"
    /\ last.id = 2
    /\ futures[1] = FThrew
    /\ ws = 2

\* the initialize() call that the last task resolved, 0 when it resolved none
JustInitialized ==
    IF /\ last.op = "message"
       /\ last.n = 1
       /\ last.id \in Ids
       /\ callers[last.id] = "initialize"
       /\ calls[last.id].st = "resolved"
    THEN last.id ELSE 0

C9_AbsentGivesFull ==
    (/\ JustInitialized # 0
     /\ calls[JustInitialized].val \in
           {InitResult(SyncAbsent), InitResult(SyncObj(ChangeAbsent))})
       => serverSyncKind = DefaultSyncKind

\* the shutdown() calls that have returned, and those that returned what the
\* shutdown request itself gave
ShutdownsReturned ==
    {i \in Ids : callers[i] = "shutdown" /\ calls[i].st \in {"resolved", "rejected"}}
ShutdownsCompleted == {i \in ShutdownsReturned : calls[i] # TransportFailure}

\* C10 as claimed: every shutdown() call that has returned has put an exit on the
\* wire
C10_ExitAlwaysSent ==
    CopiesIn(ExitMsg, wire) = Cardinality(ShutdownsReturned)

\* C10 amended: shutdown() returns in the task that settles its request, and each
\* call has then put one exit on the wire, whether the request resolved or rejected,
\* unless the transport was not Open at that moment: then the call fails with the
\* transport's send error and no exit is sent.
C10_ExitWhenOpen ==
    /\ CopiesIn(ExitMsg, wire) = Cardinality(ShutdownsCompleted)
    /\ \A i \in Ids :
          callers[i] = "shutdown" =>
             /\ calls[i].st = "pending" <=> futures[i].st = "pending"
             /\ calls[i] # TransportFailure => calls[i] = futures[i]
             /\ futures[i].st = "threw" => calls[i] = TransportFailure

\* C10 witness: a shutdown request was rejected by an error response, and another
\* timed out, and both calls have sent their exit
C10_Witness ==
    /\ callers[1] = "shutdown"
    /\ callers[2] = "shutdown"
    /\ calls[1].st = "rejected"
    /\ calls[1].why = "rpc"
    /\ calls[2] = TimeoutFailure
    /\ CopiesIn(ExitMsg, wire) = 2

\* C11: a response for a pending id rejects the future exactly when the payload
\* carries an error member, the rejection bearing that member's code, message
\* and data as they are; a payload without one resolves the future with result.
C11_ErrorRejectsVerbatim ==
    [][\A e \in ErrorCases \cup {ErrAbsent} :
         LET m == JObj(TRUE, 1, "", IF e = ErrAbsent THEN ResultFor(1) ELSE JUndef, e) IN
         Deliver(JsonText(m)) /\ 1 \in pending =>
             IF e = ErrAbsent THEN futures'[1] = Resolved(m.result)
             ELSE /\ futures'[1].st = "rejected"
                  /\ e.e = "obj" =>
                        futures'[1].info =
                            [code |-> e.code, message |-> e.message, data |-> e.data]]_vars

\* C12: a notification is delivered to every callback registered for its
\* method at that moment, in registration order, those after a callback that
\* raises included; no exception escapes and the subscriptions stay as they were.
C12_DeliveredInOrder ==
    [][\A m \in SubMethods \cup {"window/logMessage"} :
         Deliver(JsonText(Notification(m))) =>
             /\ emitted' = IF m \in SubMethods
                           THEN [k \in 1..Len(handlers[m]) |-> Call(handlers[m][k], m)]
                           ELSE <<>>
             /\ ~last'.threw
             /\ UNCHANGED <<handlers, handles, engineVars>>]_vars

\* a callback that raises was called, and the callbacks after it were called too
C12_Witness ==
    /\ last.op = "message"
    /\ \E k \in 1..Len(emitted) : emitted[k].cb \in Throws /\ k < Len(emitted)
    /\ Len(emitted) = Cardinality(Callbacks)

\* C13: a payload with both method and id is ignored whatever its id: it settles
\* no future, removes no pending entry, clears no timer and nothing is sent.
C13_ServerRequestIgnored ==
    [][\A i \in Ids :
         Deliver(JsonText(ServerRequest(i, "workspace/configuration")))
             => UNCHANGED <<pending, timers, futures, calls, wire>>]_vars

\* C14: text that does not parse, and JSON that is neither an object nor an
\* array, is dropped: no exception escapes the handler and the pending table,
\* the timers and the subscriptions stay as they were.
C14_InvalidDropped ==
    [][\A raw \in {BadText, JsonText(JNull), JsonText(JNum(7))} :
         Deliver(raw) => /\ ~last'.threw
                         /\ UNCHANGED <<pending, timers, futures, handlers>>]_vars

\* the transport has a current socket that is connecting or open
Live == ws # 0 /\ readyState[ws] \in {"CONNECTING", "OPEN"}

\* C15: send() fails whenever the current connection is not open; a failed send
\* puts nothing on the wire, and nothing reaches the wire later without a send
\* made on an open connection: opening a connection transmits nothing.
C15_SendFailsUnlessOpen ==
    [][/\ \A m \in NotifyMethods :
            Notify(m, 0) /\ ~CanSend => last'.threw /\ wire' = wire
       /\ last'.op = "notify" /\ last' # last
            => (last'.threw <=> ~CanSend)
       /\ wire' # wire => CanSend /\ last'.op \in {"notify", "keepalive"}]_vars

\* a send failed on a socket that is still connecting
C15_Witness ==
    /\ last.op = "notify" /\ last.threw
    /\ ws # 0 /\ readyState[ws] = "CONNECTING"
    /\ wire = EmptyBag

\* C16: connect() while the current socket is connecting or open creates no
\* socket and leaves the current socket, every socket's state, the connected
\* flag, the keepalive timer and the wire as they were.
C16_ConnectIdempotent ==
    [][last'.op = "connect" /\ Live
          => UNCHANGED <<ws, readyState, connected, kaTimer, wire, handlers>>]_vars

\* connect() was called on an open connection
C16_Witness == last.op = "connect" /\ CanSend /\ kaTimer

\* C17: the keepalive timer is armed only while the current connection is open,
\* so it is not armed after disconnect() or a close, nor while the next socket
\* connects; a $/keepalive is put on the wire only while the current connection
\* is open.
C17_KeepaliveOnlyWhenOpen ==
    [][/\ kaTimer' => CanSend'
       /\ CopiesIn(KeepaliveMsg, wire') > CopiesIn(KeepaliveMsg, wire) => CanSend]_vars

\* a keepalive was sent, then the connection closed and the timer is cleared
C17_Witness ==
    /\ last.op \in {"close", "disconnect"}
    /\ CopiesIn(KeepaliveMsg, wire) > 0
    /\ ~kaTimer /\ ~Live

C19_FailuresReject ==
    \A i \in Ids : i < nextId => futures[i].st \in {"pending", "resolved", "rejected"}

\* C20: two instances start with their own id counter at 1 and their own empty
\* pending table, and a step of one instance (a request, a response, a timeout,
\* a cancellation, a step of its transport) leaves the other instance as it was,
\* also when both have a request pending under the same id.
C20_InstancesIndependent ==
    /\ \A k \in Instances : peers[k].nextId = 1 /\ peers[k].pending = {}
    /\ [][\A k \in Instances : \A j \in Instances \ {k} :
            /\ last'.kind = k /\ last' # last => peers'[j] = peers[j]
            /\ peers'[k] = peers[k] \/ peers'[j] = peers[j]]_vars

\* both instances had request 1 pending; the response to A settled A's alone
C20_Witness ==
    /\ last.op = "peer-message" /\ last.kind = "A" /\ last.id = 1
    /\ peers["A"].futures[1] = Resolved(ResultFor(1))
    /\ peers["B"].futures[1] = FPending /\ 1 \in peers["B"].pending
    /\ peers["B"].nextId = peers["A"].nextId

\* C21: disconnect() and a close of a socket settle no future and remove no
\* pending entry or timer; every pending entry has its timer armed, a future
\* leaves pending only by a response, a cancellation or its timer, never with a
\* transport error, and by its timer it rejects with the timeout failure.
C21_LossKeepsPending ==
    [][/\ last'.op \in {"disconnect", "close"} /\ last' # last
            => UNCHANGED <<pending, timers, futures>>
       /\ pending' \subseteq timers'
       /\ \A i \in Ids : futures[i] = FPending /\ futures'[i] # FPending =>
             /\ last'.op \in {"message", "abort", "timeout"}
             /\ futures'[i] # TransportFailure
             /\ last'.op = "timeout" => futures'[i] = TimeoutFailure]_vars

\* a request outlived its connection and then rejected with the timeout failure
C21_Witness ==
    /\ last.op = "timeout" /\ ~Live
    /\ futures[last.id] = TimeoutFailure

\* C22: every request that was sent settles in the end, given that an armed
\* timeout timer fires in the end, whatever the server and the transport do.
C22_EventuallySettles ==
    \A i \in Ids : (futures[i] = FPending) ~> (futures[i].st \in {"resolved", "rejected"})

\* the server never answered on an open connection and the request timed out
C22_Witness ==
    /\ last.op = "timeout" /\ CanSend
    /\ futures[last.id] = TimeoutFailure /\ last.id \notin pending

\* the Request message of id is on the wire
Sent(i) == \E m \in RequestMethods : CopiesIn(ReqMsg(i, m), wire) > 0

\* C23: between tasks, a request is in the pending table exactly when its
\* Request message was sent and its future is not settled.
C23_PendingIffUnsettled ==
    \A i \in Ids :
        /\ i \in pending <=> Sent(i) /\ futures[i].st \notin {"resolved", "rejected"}
        /\ Sent(i) <=> futures[i].st \in {"pending", "resolved", "rejected"}

\* the abort listener of a request that a response had settled ran (its
\* notification is on the wire) while another request is pending
C23_Witness ==
    /\ last.op = "abort"
    /\ \E i \in Ids : /\ futures[i].st = "resolved"
                       /\ CopiesIn(CancelMsg(i), wire) > 0
                       /\ pending = Ids \ {i}

\* C24: a task that settles requests (the response to one, the timer of one,
\* the token some were issued with) leaves the pending entry, the timer and the
\* future of every other request, and the id counter, as they were.
C24_SettlingIsLocal ==
    [][last'.op \in {"message", "timeout", "abort"} =>
         LET about == IF last'.op = "abort" THEN listeners[last'.tok] ELSE {last'.id} IN
         /\ nextId' = nextId
         /\ \A j \in Ids \ about :
               /\ j \in pending' <=> j \in pending
               /\ j \in timers' <=> j \in timers
               /\ futures'[j] = futures[j]]_vars

\* request 1 was settled by its timer, its response or its token while
\* request 2 stays pending with its timer armed
C24_Witness ==
    /\ last.op \in {"message", "timeout", "abort"}
    /\ futures[1].st \in {"resolved", "rejected"} /\ last.n = 1
    /\ futures[2] = FPending /\ 2 \in pending /\ 2 \in timers

\* C25: for every id, at most one Request message with that id was ever put on
\* the wire, and none with an id the counter has not reached.
C25_NoRetries ==
    \A i \in Ids : \A m \in RequestMethods :
        /\ CopiesIn(ReqMsg(i, m), wire) <= 1
        /\ i >= nextId => CopiesIn(ReqMsg(i, m), wire) = 0

\* request 1 failed (timeout, error response or cancellation), the transport
\* disconnected and connected again, and its message is on the wire once
C25_Witness ==
    /\ futures[1].st = "rejected"
    /\ CanSend /\ ws # 1
    /\ \E m \in RequestMethods : CopiesIn(ReqMsg(1, m), wire) = 1

\* the change of the connection state in a step
Transition == <<ConnState(ws, readyState), ConnState(ws', readyState')>>

\* C26 as stated: the connection state changes only from Disconnected to
\* Connecting, from Connecting to Open and from Open to Disconnected.
C26_ThreeTransitions ==
    [][Transition[1] # Transition[2] =>
          Transition \in {<<"Disconnected", "Connecting">>, <<"Connecting", "Open">>,
                          <<"Open", "Disconnected">>}]_vars

\* C26: the connection state changes only from Disconnected to Connecting, from
\* Connecting to Open, from Open to Disconnected, and from Connecting to
\* Disconnected when disconnect() is called or the socket closes before it opened.
C26_Transitions ==
    [][Transition[1] # Transition[2] =>
          \/ Transition \in {<<"Disconnected", "Connecting">>, <<"Connecting", "Open">>,
                             <<"Open", "Disconnected">>}
          \/ /\ Transition = <<"Connecting", "Disconnected">>
             /\ last'.op \in {"disconnect", "close"}]_vars

\* the current socket closed before it opened
C26_Witness ==
    /\ last.op = "close" /\ last.id = ws /\ last.kind = "CONNECTING"
    /\ ConnState(ws, readyState) = "Disconnected"

\* C27: every on() call is a registration of its own: while a closure returned
\* for a method and a callback has not been called, the callback is subscribed
\* to the method and receives its notifications, whatever other closures,
\* called once or twice, have removed.
C27_RegistrationsIndependent ==
    \A x \in Subscriptions :
        handles[x].live > 0 => \E k \in 1..Len(handlers[x[1]]) : handlers[x[1]][k] = x[2]

\* C28: when a token triggers while the connection is not open, every pending
\* request issued with it loses its timer and its pending entry and rejects
\* with the cancellation failure; nothing is put on the wire and no exception
\* escapes the listener.
C28_CancelCompletesLocally ==
    [][\A t \in Tokens :
         Abort(t) /\ ~CanSend =>
             /\ \A i \in listeners[t] \cap pending :
                   i \notin pending' /\ i \notin timers' /\ futures'[i] = AbortFailure
             /\ ~last'.threw
             /\ wire' = wire]_vars

\* a request was cancelled on a connection that is not open: it rejected with
\* the cancellation failure and no $/cancelRequest is on the wire
C28_Witness ==
    /\ last.op = "abort" /\ ~CanSend /\ last.n > 0
    /\ \E i \in Ids : /\ futures[i] = AbortFailure
                       /\ CopiesIn(CancelMsg(i), wire) = 0
                       /\ i \notin pending \cup timers

\* C29: a $/cancelRequest for an id is put on the wire only when that request
\* is pending as its token triggers; a token that triggers when its requests
\* are all settled changes neither the wire nor the engine's tables.
C29_CancelOnlyIfPending ==
    [][\A t \in Tokens :
         Abort(t) =>
             /\ \A i \in Ids :
                   CopiesIn(CancelMsg(i), wire') > CopiesIn(CancelMsg(i), wire)
                       => i \in pending
             /\ listeners[t] \cap pending = {}
                   => UNCHANGED <<wire, pending, timers, futures>>]_vars

\* C30: a request issued with a token that had triggered already is rejected
\* with the cancellation failure and is not in the pending table.
C30_PreAbortedRejects ==
    last.op = "request" /\ last.tok \in aborted /\ ~last.threw
        => futures[last.id] = AbortFailure /\ last.id \notin pending

\* C31: in a batch, every response for a pending id settles its request,
\* whatever elements (a null among them) stand before or after it.
C31_BatchSurvivesMalformed ==
    [][\A b \in Batches :
         Deliver(JsonText(JArr(b))) =>
             \A k \in 1..Len(b) :
                 b[k].j = "obj" /\ b[k].id \in pending => futures'[b[k].id] # FPending]_vars

\* C32: while the current socket is open, the keepalive timer is armed and the
\* transport is marked connected, also after the close event of a socket that
\* disconnect() and connect() had replaced.
C32_KeepaliveWhileOpen ==
    CanSend /\ KeepaliveSec > 0 => kaTimer /\ connected

\* C33: between tasks, the ids whose timeout timer is armed are the ids in the
\* pending table, so no timer is left to fire for an answered or cancelled request.
C33_TimerIffPending ==
    /\ timers = pending
    /\ \A i \in Ids : futures[i].st \in {"resolved", "rejected"} => i \notin timers

\* request 1 was answered and has no timer; request 2 is pending with its timer
C33_Witness ==
    /\ futures[1].st = "resolved" /\ 1 \notin timers
    /\ futures[2] = FPending /\ timers = {2} /\ pending = {2}

\* C34: when the promise of initialize() rejects, serverCapabilities and
\* serverSyncKind are what they were before the task that rejected it.
C34_RejectedInitializeKeepsState ==
    [][\A i \in Ids :
         /\ callers'[i] = "initialize"
         /\ calls[i].st \in {"none", "pending"}
         /\ calls'[i].st = "rejected"
         => UNCHANGED <<serverCapabilities, serverSyncKind>>]_vars

\* C35: serverSyncKind is None (0), Full (1) or Incremental (2).
C35_SyncKindInRange == serverSyncKind \in 0..2

\* C37: a request() made while the connection is not open throws, creates no
\* pending entry, timer or abort listener, puts nothing on the wire, and only
\* advances the id counter; the id it consumed is never on the wire and the
\* next request draws a larger one.
C37_FailedSendLeavesNoTrace ==
    [][/\ \A m \in RequestMethods, t \in Tokens \cup {NoToken} :
            Request(m, t) /\ ~CanSend =>
                /\ last'.threw
                /\ nextId' = nextId + 1
                /\ UNCHANGED <<pending, timers, listeners, aborted, wire, transportVars>>
       /\ \A i \in Ids : futures[i] = FThrew => futures'[i] = FThrew /\ ~Sent(i)'
       /\ last'.op = "request" /\ last' # last => last'.id = nextId /\ nextId' > nextId]_vars

\* request 1 failed on a closed transport; the next request got id 2 and is
\* the only one sent and pending
C37_Witness ==
    /\ futures[1] = FThrew /\ ~Sent(1)
    /\ futures[2] = FPending /\ Sent(2)
    /\ pending = {2} /\ timers = {2}

\* C36: a textDocument/publishDiagnostics notification reaches every callback
\* subscribed through onPublishDiagnostics at that moment, also when a
\* callback subscribed before it raises.
C36_DiagnosticsReachAll ==
    [][Deliver(JsonText(Notification("textDocument/publishDiagnostics"))) =>
          \A k \in 1..Len(diagListeners) :
              \E n \in 1..Len(diagnosed') : diagnosed'[n].cb = diagListeners[k]]_vars

====
